---- MODULE Spec2Model ----
(***************************************************************************)
(* Model of radio.py, a serial (CI-V) controller for the IC-7100 radio.    *)
(*                                                                         *)
(* The program is single threaded.  A Controller method builds a Command,  *)
(* renders it and hands the bytes to Connection.send_cmd, which writes     *)
(* them to the serial port in one call and then reads the answer byte by   *)
(* byte.  The radio is the environment: it puts bytes into the port's      *)
(* input buffer whenever it likes.                                         *)
(*                                                                         *)
(* Bytes are written in decimal; the hexadecimal value of the source is    *)
(* given in the comment next to each.  Python 2 semantics (raw_input,      *)
(* port.write of a str): chr(i) raises ValueError unless 0 <= i <= 255.    *)
(***************************************************************************)
EXTENDS Integers, Sequences, FiniteSets, TLC

(* ---------------------------- bounds ----------------------------------- *)

\* arguments tried for goto_mem are (1-ArgSpan)..(100+ArgSpan), for
\* select_bank (1-ArgSpan)..(6+ArgSpan)
ArgSpan == 2
\* number of commands written to the port in one run
MaxCmds == 2
\* number of bursts of bytes the radio sends in one run
MaxChunks == 2

(* ------------------------ Command (radio.py:160) ----------------------- *)

PREAMBLE == <<254, 254>>                \* [0xFE, 0xFE]
TRANSCEIVER_ADDRESS == <<136>>          \* [0x88]
CONTROLLER_ADDRESS == <<224>>           \* [0xE0]
END_OF_MSG == 253                       \* 0xFD

\* Python's None for cmd_num and subcmd_num (no byte has this value)
None == -1

\* Command(): data = None is modelled as the empty list, which render
\* treats the same way (nothing is appended)
Command == [cmd_num |-> None, subcmd_num |-> None, data |-> <<>>]

set_num(cmd, num) == [cmd EXCEPT !.cmd_num = num]

set_subcmd_num(cmd, num) == [cmd EXCEPT !.subcmd_num = num]

set_data(cmd, bcd_bytes) == [cmd EXCEPT !.data = bcd_bytes]

\* a faulty render: the two addresses in the order of a response
render_swapped(c) ==
    LET cmd0 == PREAMBLE \o CONTROLLER_ADDRESS \o TRANSCEIVER_ADDRESS
        cmd1 == Append(cmd0, c.cmd_num)
        cmd2 == IF c.subcmd_num # None THEN Append(cmd1, c.subcmd_num) ELSE cmd1
        cmd3 == cmd2 \o c.data
    IN  Append(cmd3, END_OF_MSG)

render(c) ==
    LET cmd0 == PREAMBLE \o TRANSCEIVER_ADDRESS \o CONTROLLER_ADDRESS
        cmd1 == Append(cmd0, c.cmd_num)
        cmd2 == IF c.subcmd_num # None THEN Append(cmd1, c.subcmd_num) ELSE cmd1
        cmd3 == cmd2 \o c.data
    IN  Append(cmd3, END_OF_MSG)

(* ------------------------- Radio (radio.py:12) ------------------------- *)

\* frequency is kept in kHz and the two fractions in percent
Radio ==
    [frequency |-> 146960, mode |-> "VHF", memory_num |-> 1, memory_bank |-> 1,
     transmitting |-> FALSE, power_frac |-> 5, data_mode |-> TRUE,
     swr_meter |-> 0, signal_meter |-> 0, external_speaker_active |-> TRUE,
     backlight_frac |-> 30]

(* ---------------------- helpers of the Controller ---------------------- *)

\* a faulty table: the 7 of turn_on's docstring at 9600 baud
repeatedFEs_docstring == [b \in {19200, 9600, 4800, 1200, 300} |->
                            CASE b = 19200 -> 25 [] b = 9600 -> 7 [] b = 4800 -> 7
                              [] b = 1200 -> 3 [] b = 300 -> 2]

\* turn_on's table of wake-up bytes per baud rate
repeatedFEs == [b \in {19200, 9600, 4800, 1200, 300} |->
                  CASE b = 19200 -> 25 [] b = 9600 -> 13 [] b = 4800 -> 7
                    [] b = 1200 -> 3 [] b = 300 -> 2]

\* [x] * n
Repeat(x, n) == [i \in 1..n |-> x]

\* int('0x{0}'.format(n), 0): the decimal digits of n read as hexadecimal
RECURSIVE int_0x(_)
int_0x(n) == IF n < 10 THEN n ELSE 16 * int_0x(n \div 10) + (n % 10)

(* --------------------- the radio's possible bursts --------------------- *)

READ_ATTEMPTS == 500                    \* range(500) in send_cmd

\* a complete "OK" answer: FE FE E0 88 FB FD
OkFrame == <<254, 254, 224, 136, 251, 253>>
\* the start of an answer whose rest never comes: FE FE E0
CutFrame == <<254, 254, 224>>
\* a radio that keeps sending and never terminates a frame
Flood == Repeat(0, READ_ATTEMPTS)

Chunks == {OkFrame, CutFrame, Flood}

(* ------------------------------ state ---------------------------------- *)

VARIABLES
    BAUD,        \* Connection.BAUD
    radio,       \* Controller.radio, the Radio record
    pc,          \* "IDLE": no call is running; "SENT": send_cmd has written
                 \* and is about to read
    op,          \* the Controller method called last, with its argument
    writes,      \* the byte strings the current call passed to port.write
    port_in,     \* the serial port's input buffer
    port_in_cmd, \* for each byte of port_in, the number of commands that
                 \* had been written when the radio sent it
    response,    \* send_cmd's response list
    response_cmd,\* the same tags for the bytes of response
    stop,        \* how the read loop ended
    outcome,     \* how the call ended: "returned" or the exception raised
    nsent,       \* number of commands written so far
    inflight,    \* commands written whose read loop has not ended
    nchunks,     \* number of bursts the radio has sent
    radio0,      \* the Radio record when the current call began
    binary_string, \* the argument of cmd_from_binary
    decode_out   \* how the call of cmd_from_binary ended

vars == <<BAUD, radio, pc, op, writes, port_in, port_in_cmd, response,
          response_cmd, stop, outcome, nsent, inflight, nchunks, radio0,
          binary_string, decode_out>>

\* the variables of the codec helper, which no Controller method touches
codec_vars == <<binary_string, decode_out>>

\* cmd_from_binary has not been called
NotDecoded == [state |-> "pending", message |-> "", cmd_num |-> None]

\* the arguments tried for goto_mem and select_bank
MemArgs == (1 - ArgSpan)..(100 + ArgSpan)
BankArgs == (1 - ArgSpan)..(6 + ArgSpan)
\* the arguments at the edges of the accepted ranges
MemEdges == {0, 1, 100, 101}
BankEdges == {0, 1, 6, 7}

\* Controller(): a new Connection, a new Radio record, nothing sent yet
Start ==
    /\ radio = Radio
    /\ pc = "IDLE"
    /\ op = [name |-> "none", arg |-> 0]
    /\ writes = <<>>
    /\ port_in = <<>>
    /\ port_in_cmd = <<>>
    /\ response = <<>>
    /\ response_cmd = <<>>
    /\ stop = "none"
    /\ outcome = "none"
    /\ nsent = 0
    /\ inflight = 0
    /\ nchunks = 0
    /\ radio0 = Radio
    /\ binary_string = <<>>
    /\ decode_out = NotDecoded

\* the baud rate of the source
Init ==
    /\ BAUD = 9600
    /\ Start

(* ---------------------- Connection (radio.py:37) ----------------------- *)

\* an exception leaves the call: nothing was written by it
Raise(e) ==
    /\ outcome' = e
    /\ pc' = "IDLE"
    /\ writes' = <<>>
    /\ response' = <<>>
    /\ response_cmd' = <<>>
    /\ stop' = "none"
    /\ UNCHANGED <<port_in, port_in_cmd, nsent, inflight>>

\* a faulty write: send_cmd returns after the write, without waiting for
\* the answer
port_write_no_wait(cmd) ==
    /\ writes' = <<cmd>>
    /\ pc' = "IDLE"
    /\ nsent' = nsent + 1
    /\ inflight' = inflight + 1
    /\ outcome' = "returned"
    /\ response' = <<>>
    /\ response_cmd' = <<>>
    /\ stop' = "none"
    /\ UNCHANGED <<port_in, port_in_cmd>>

\* port.write(''.join([chr(i) for i in cmd])): one write of all the bytes
port_write(cmd) ==
    /\ writes' = <<cmd>>
    /\ pc' = "SENT"
    /\ nsent' = nsent + 1
    /\ inflight' = inflight + 1
    /\ outcome' = "none"
    /\ response' = <<>>
    /\ response_cmd' = <<>>
    /\ stop' = "none"
    /\ UNCHANGED <<port_in, port_in_cmd>>

\* send_cmd up to and including the write (lines 56-57)
send_cmd(cmd) ==
    IF \E i \in 1..Len(cmd) : cmd[i] \notin 0..255
    THEN Raise("ValueError")                   \* chr() arg not in range(256)
    ELSE \/ port_write(cmd)
         \/ Raise("SerialException")           \* the port refuses the write

\* a faulty read loop: END_OF_MSG does not end it
read_loop_no_break(buf) ==
    IF Len(buf) < READ_ATTEMPTS
    THEN [n |-> Len(buf), stop |-> "timeout"]
    ELSE [n |-> READ_ATTEMPTS, stop |-> "exhausted"]

\* the read loop of send_cmd (lines 59-67) on input buffer buf.  Iteration
\* i (from 0) reads byte i + 1 of buf, or times out when buf has no such
\* byte; every byte read is appended to response, so response is a prefix
\* of buf.  The result is the length of response and the way the loop
\* ended: at the first END_OF_MSG among the bytes read, else at the read
\* that finds the buffer empty, else when range(500) is used up.
read_loop(buf) ==
    LET reads == IF Len(buf) < READ_ATTEMPTS THEN Len(buf) ELSE READ_ATTEMPTS
        ends == {i \in 1..reads : buf[i] = END_OF_MSG}
    IN  IF ends # {}
        THEN [n |-> CHOOSE i \in ends : \A j \in ends : i <= j,
              stop |-> "terminator"]
        ELSE IF Len(buf) < READ_ATTEMPTS
        THEN [n |-> Len(buf), stop |-> "timeout"]
        ELSE [n |-> READ_ATTEMPTS, stop |-> "exhausted"]

(* ---------------------- Controller (radio.py:72) ----------------------- *)

\* every method is called when no other call is running
Call(name, arg) ==
    /\ pc = "IDLE"
    /\ nsent < MaxCmds
    /\ op' = [name |-> name, arg |-> arg]
    /\ radio0' = radio
    /\ UNCHANGED <<BAUD, nchunks>>
    /\ UNCHANGED codec_vars

turn_on ==
    /\ Call("turn_on", 0)
    /\ LET on_cmd_pre == Repeat(254, repeatedFEs[BAUD])
           on_cmd == set_subcmd_num(set_num(Command, 24), 1)   \* 0x18, 0x01
       IN  send_cmd(on_cmd_pre \o render(on_cmd))
    /\ UNCHANGED radio

turn_off ==
    /\ Call("turn_off", 0)
    /\ LET off_cmd == set_subcmd_num(set_num(Command, 24), 0)  \* 0x18, 0x0
       IN  send_cmd(render(off_cmd))
    /\ UNCHANGED radio

\* a faulty goto_mem: the range test lets 0 through
goto_mem_from_0(mem_num) ==
    /\ Call("goto_mem", mem_num)
    /\ IF ~(0 <= mem_num /\ mem_num <= 100)
       THEN Raise("ValueError")
       ELSE LET mem_num_hex == int_0x(mem_num)
                cmd == set_data(set_num(Command, 8), <<mem_num_hex>>)
            IN  send_cmd(render(cmd))
    /\ UNCHANGED radio

goto_mem(mem_num) ==
    /\ Call("goto_mem", mem_num)
    /\ IF ~(1 <= mem_num /\ mem_num <= 100)
       THEN Raise("ValueError")
       ELSE LET mem_num_hex == int_0x(mem_num)
                cmd == set_data(set_num(Command, 8), <<mem_num_hex>>)  \* 0x08
            IN  send_cmd(render(cmd))
    /\ UNCHANGED radio

\* a faulty select_bank: the subcommand number is not set
select_bank_no_subcmd(bank_num) ==
    /\ Call("select_bank", bank_num)
    /\ IF ~(1 <= bank_num /\ bank_num <= 6)
       THEN Raise("ValueError")
       ELSE LET bank_num_hex == int_0x(bank_num)
                cmd == set_data(set_num(Command, 8), <<bank_num_hex>>)
            IN  send_cmd(render(cmd))
    /\ UNCHANGED radio

select_bank(bank_num) ==
    /\ Call("select_bank", bank_num)
    /\ IF ~(1 <= bank_num /\ bank_num <= 6)
       THEN Raise("ValueError")
       ELSE LET bank_num_hex == int_0x(bank_num)
                cmd == set_data(set_subcmd_num(set_num(Command, 8), 160),
                                <<bank_num_hex>>)              \* 0x08, 0xA0
            IN  send_cmd(render(cmd))
    /\ UNCHANGED radio

rx ==
    /\ Call("rx", 0)
    /\ LET cmd == set_data(set_subcmd_num(set_num(Command, 28), 0), <<0>>)
       IN  send_cmd(render(cmd))                               \* 0x1C, 0x00
    /\ UNCHANGED radio

tx ==
    /\ Call("tx", 0)
    /\ LET cmd == set_data(set_subcmd_num(set_num(Command, 28), 0), <<1>>)
       IN  send_cmd(render(cmd))                               \* 0x1C, 0x00
    /\ UNCHANGED radio

data_mode_on ==
    /\ Call("data_mode_on", 0)
    /\ LET cmd == set_data(set_subcmd_num(set_num(Command, 26), 6), <<1, 2>>)
       IN  send_cmd(render(cmd))                               \* 0x1A, 0x06
    /\ UNCHANGED radio

\* a faulty data_mode_off: the Radio record is updated before the send
data_mode_off_early ==
    /\ Call("data_mode_off", 0)
    /\ LET cmd == set_data(set_subcmd_num(set_num(Command, 26), 6), <<0, 0>>)
       IN  send_cmd(render(cmd))
    /\ radio' = [radio EXCEPT !.data_mode = FALSE]

data_mode_off ==
    /\ Call("data_mode_off", 0)
    /\ LET cmd == set_data(set_subcmd_num(set_num(Command, 26), 6), <<0, 0>>)
       IN  send_cmd(render(cmd))                               \* 0x1A, 0x06
    /\ UNCHANGED radio

\* a faulty end of tx: it records that the radio transmits
after_send_tx(name, r) ==
    IF name = "data_mode_on" THEN [r EXCEPT !.data_mode = TRUE]
    ELSE IF name = "data_mode_off" THEN [r EXCEPT !.data_mode = FALSE]
    ELSE IF name = "tx" THEN [r EXCEPT !.transmitting = TRUE]
    ELSE r

\* what the method does with the Radio record once send_cmd has returned
after_send(name, r) ==
    IF name = "data_mode_on" THEN [r EXCEPT !.data_mode = TRUE]
    ELSE IF name = "data_mode_off" THEN [r EXCEPT !.data_mode = FALSE]
    ELSE r

\* a faulty end of the call: a command answered by silence is written again
Return_resend ==
    /\ pc = "SENT"
    /\ port_in = <<>>
    /\ nsent' = nsent + 1
    /\ UNCHANGED <<BAUD, radio, pc, op, writes, port_in, port_in_cmd, response,
                   response_cmd, stop, outcome, inflight, nchunks, radio0>>
    /\ UNCHANGED codec_vars

\* the rest of the call: send_cmd reads the answer and returns it, the
\* method finishes and returns None
Return ==
    /\ pc = "SENT"
    /\ LET r == read_loop(port_in)
           n == r.n
       IN  /\ response' = SubSeq(port_in, 1, n)
           /\ response_cmd' = SubSeq(port_in_cmd, 1, n)
           /\ stop' = r.stop
           /\ port_in' = SubSeq(port_in, n + 1, Len(port_in))
           /\ port_in_cmd' = SubSeq(port_in_cmd, n + 1, Len(port_in_cmd))
    /\ radio' = after_send(op.name, radio)
    /\ outcome' = "returned"
    /\ pc' = "IDLE"
    /\ inflight' = inflight - 1
    /\ UNCHANGED <<BAUD, op, writes, nsent, nchunks, radio0>>
    /\ UNCHANGED codec_vars

\* port.read fails on the first read: the exception leaves send_cmd and the
\* method
ReadFails ==
    /\ pc = "SENT"
    /\ outcome' = "SerialException"
    /\ pc' = "IDLE"
    /\ inflight' = inflight - 1
    /\ UNCHANGED <<BAUD, radio, op, writes, port_in, port_in_cmd, response,
                   response_cmd, stop, nsent, nchunks, radio0>>
    /\ UNCHANGED codec_vars

(* ------------------------------ the radio ------------------------------ *)

RadioSends(chunk) ==
    /\ nchunks < MaxChunks
    /\ nchunks' = nchunks + 1
    /\ port_in' = port_in \o chunk
    /\ port_in_cmd' = port_in_cmd \o Repeat(nsent, Len(chunk))
    /\ UNCHANGED <<BAUD, radio, pc, op, writes, response, response_cmd, stop,
                   outcome, nsent, inflight, radio0>>
    /\ UNCHANGED codec_vars

Next ==
    \/ turn_on
    \/ turn_off
    \/ \E n \in MemEdges : goto_mem(n)
    \/ \E n \in BankEdges : select_bank(n)
    \/ rx
    \/ tx
    \/ data_mode_on
    \/ data_mode_off
    \/ Return
    \/ ReadFails
    \/ \E chunk \in Chunks : RadioSends(chunk)

Spec == Init /\ [][Next]_vars

\* every method on every input: at every baud rate of turn_on's table and
\* over all the arguments tried for goto_mem and select_bank, with a radio
\* that never answers
InitArgs ==
    /\ BAUD \in DOMAIN repeatedFEs
    /\ Start

NextArgs ==
    \/ turn_on
    \/ turn_off
    \/ \E n \in MemArgs : goto_mem(n)
    \/ \E n \in BankArgs : select_bank(n)
    \/ rx
    \/ tx
    \/ data_mode_on
    \/ data_mode_off
    \/ Return
    \/ ReadFails

SpecArgs == InitArgs /\ [][NextArgs]_vars

\* send_cmd under two of the methods (its read loop is the same for all),
\* with a read loop that goes on: port.read(1) returns after its timeout of
\* 0.1 s at the latest
NextLive ==
    \/ rx
    \/ tx
    \/ Return
    \/ ReadFails
    \/ \E chunk \in Chunks : RadioSends(chunk)

SpecLive == Init /\ [][NextLive]_vars /\ WF_vars(Return)

(* ----------------------- Operator (radio.py:200) ---------------------- *)

\* an exception no one catches has ended the program
Crashed == outcome \in {"ValueError", "SerialException"}

\* Operator.transmit is at its raw_input: controller.tx() has returned
Waiting == pc = "IDLE" /\ op.name = "tx" /\ outcome = "returned"

\* Operator.operate is at its raw_input
AtPrompt == pc = "IDLE" /\ ~Crashed /\ ~Waiting

\* 't': transmit() calls controller.tx(); the command is taken while both
\* frames of a transmission can still be written
operate_t ==
    /\ AtPrompt
    /\ nsent + 1 < MaxCmds
    /\ tx

\* a faulty end of transmit: it keys up again
transmit_stop_tx ==
    /\ Waiting
    /\ tx

\* the operator presses enter: raw_input returns and transmit() calls
\* controller.rx()
transmit_stop ==
    /\ Waiting
    /\ rx

\* 'm<n>': goto_mem(int(cmd[1:]))
operate_m(memory_number) ==
    /\ AtPrompt
    /\ goto_mem(memory_number)

\* a faulty 'd': the branches the wrong way round
operate_d_same ==
    /\ AtPrompt
    /\ IF radio.data_mode THEN data_mode_on ELSE data_mode_off

\* 'd': toggle the data mode
operate_d ==
    /\ AtPrompt
    /\ IF radio.data_mode THEN data_mode_off ELSE data_mode_on

NextOperator ==
    \/ operate_t
    \/ transmit_stop
    \/ \E n \in MemEdges : operate_m(n)
    \/ operate_d
    \/ Return
    \/ ReadFails
    \/ \E chunk \in Chunks : RadioSends(chunk)

\* the read loop goes on, and the operator ends a transmission at some time
SpecOperator ==
    /\ Init
    /\ [][NextOperator]_vars
    /\ WF_vars(Return)
    /\ WF_vars(transmit_stop)

(* -------------------- cmd_from_binary (radio.py:244) ------------------- *)

\* bounds of the byte strings handed to cmd_from_binary
MaxFrameLen == 6

\* x != l in Python where x is an int (an element of the list send_cmd
\* returns) and l is a list (Command.CONTROLLER_ADDRESS is [0xE0],
\* Command.TRANSCEIVER_ADDRESS is [0x88]): an int never equals a list
IntNeList(x, l) == TRUE

\* binary_string[:n]
Slice(bs, n) == SubSeq(bs, 1, IF Len(bs) < n THEN Len(bs) ELSE n)

\* cmd_from_binary(bs) for a list of ints bs: the exception raised, or
\* "returned" (the function has no return statement: it returns None), and
\* the cmd_num of its local Command when it ends.  Python indexes from 0:
\* binary_string[2] is bs[3].
cmd_from_binary(bs) ==
    IF Slice(bs, 2) # PREAMBLE
    THEN [state |-> "ValueError", message |-> "preamble", cmd_num |-> None]
    ELSE IF Len(bs) < 3
    THEN [state |-> "IndexError", message |-> "", cmd_num |-> None]
    ELSE IF IntNeList(bs[3], CONTROLLER_ADDRESS)
    THEN [state |-> "ValueError", message |-> "addresses", cmd_num |-> None]
    ELSE IF Len(bs) < 4
    THEN [state |-> "IndexError", message |-> "", cmd_num |-> None]
    ELSE IF IntNeList(bs[4], TRANSCEIVER_ADDRESS)
    THEN [state |-> "ValueError", message |-> "addresses", cmd_num |-> None]
    ELSE IF Len(bs) < 5
    THEN [state |-> "IndexError", message |-> "", cmd_num |-> None]
    ELSE [state |-> "returned", message |-> "", cmd_num |-> bs[5]]

\* the bytes the strings are made of: FE, E0, 88, FB and FD
CodecBytes == {254, 224, 136, 251, 253}

RECURSIVE SeqsUpTo(_, _)
SeqsUpTo(S, n) ==
    IF n = 0 THEN {<<>>}
    ELSE LET shorter == SeqsUpTo(S, n - 1)
         IN  shorter \cup {Append(q, b) : q \in {r \in shorter : Len(r) = n - 1},
                                          b \in S}

\* the byte strings tried as argument
CodecInputs == SeqsUpTo(CodecBytes, MaxFrameLen)

\* the Commands rendered and handed back to cmd_from_binary
Commands ==
    [cmd_num : {24, 251}, subcmd_num : {None, 1}, data : {<<>>, <<0>>, <<1, 2>>}]

InitCodec ==
    /\ BAUD = 9600
    /\ radio = Radio
    /\ pc = "IDLE"
    /\ op = [name |-> "none", arg |-> 0]
    /\ writes = <<>>
    /\ port_in = <<>>
    /\ port_in_cmd = <<>>
    /\ response = <<>>
    /\ response_cmd = <<>>
    /\ stop = "none"
    /\ outcome = "none"
    /\ nsent = 0
    /\ inflight = 0
    /\ nchunks = 0
    /\ radio0 = Radio
    /\ binary_string \in CodecInputs
    /\ decode_out = NotDecoded

controller_vars == <<BAUD, radio, pc, op, writes, port_in, port_in_cmd,
                     response, response_cmd, stop, outcome, nsent, inflight,
                     nchunks, radio0>>

\* a Command is rendered and its bytes become the argument
Render(c) ==
    /\ binary_string = <<>>
    /\ decode_out = NotDecoded
    /\ binary_string' = render(c)
    /\ UNCHANGED decode_out
    /\ UNCHANGED controller_vars

\* the call cmd_from_binary(binary_string)
Decode ==
    /\ decode_out = NotDecoded
    /\ decode_out' = cmd_from_binary(binary_string)
    /\ UNCHANGED binary_string
    /\ UNCHANGED controller_vars

NextCodec ==
    \/ \E c \in Commands : Render(c)
    \/ Decode

SpecCodec == InitCodec /\ [][NextCodec]_vars

(* ======================== properties checked ========================== *)

\* the current call got its bytes out: it has not ended in an exception
NoException == outcome \in {"none", "returned"}

\* C1: goto_mem(n) with n outside 1..100 and select_bank(n) with n outside
\* 1..6 end in ValueError, with nothing written to the port and the Radio
\* record as it was when the call began.
C1_InvalidArgument ==
    /\ (op.name = "goto_mem" /\ op.arg \notin 1..100) =>
           /\ outcome = "ValueError"
           /\ pc = "IDLE"
           /\ writes = <<>>
           /\ inflight = 0
           /\ radio = radio0
    /\ (op.name = "select_bank" /\ op.arg \notin 1..6) =>
           /\ outcome = "ValueError"
           /\ pc = "IDLE"
           /\ writes = <<>>
           /\ inflight = 0
           /\ radio = radio0

\* a rejected goto_mem(101) after a command that was written and answered
\* by silence
C1_Witness ==
    /\ op = [name |-> "goto_mem", arg |-> 101]
    /\ outcome = "ValueError"
    /\ nsent = 1

\* C2 (as claimed): goto_mem(1) and goto_mem(100) are not rejected, and
\* write FE FE 88 E0 08 01 FD and FE FE 88 E0 08 64 FD.
C2_GotoMemFrames ==
    /\ op = [name |-> "goto_mem", arg |-> 1] =>
           /\ outcome # "ValueError"
           /\ NoException => writes = << <<254, 254, 136, 224, 8, 1, 253>> >>
    /\ op = [name |-> "goto_mem", arg |-> 100] =>
           /\ outcome # "ValueError"
           /\ NoException => writes = << <<254, 254, 136, 224, 8, 100, 253>> >>

\* C3: select_bank(n), n in 1..6, is not rejected and writes exactly
\* FE FE 88 E0 08 A0 n FD, in one write.
C3_SelectBankFrame ==
    \A n \in 1..6 :
        op = [name |-> "select_bank", arg |-> n] =>
            /\ outcome # "ValueError"
            /\ writes \in {<<>>, << <<254, 254, 136, 224, 8, 160, n, 253>> >>}
            /\ NoException => writes # <<>>

\* select_bank(3) has written FE FE 88 E0 08 A0 03 FD and returned
C3_Witness ==
    /\ op = [name |-> "select_bank", arg |-> 3]
    /\ outcome = "returned"
    /\ writes = << <<254, 254, 136, 224, 8, 160, 3, 253>> >>

\* the number of wake-up bytes the claim gives for each baud rate
WakeUpBytes == (300 :> 2) @@ (1200 :> 3) @@ (4800 :> 7) @@ (9600 :> 13)
                 @@ (19200 :> 25)

C5_DataMode ==
    \A on \in BOOLEAN :
        LET name == IF on THEN "data_mode_on" ELSE "data_mode_off"
            frame == IF on THEN <<254, 254, 136, 224, 26, 6, 1, 2, 253>>
                           ELSE <<254, 254, 136, 224, 26, 6, 0, 0, 253>>
        IN  op.name = name =>
                /\ writes \in {<<>>, <<frame>>}
                /\ NoException => writes = <<frame>>
                /\ outcome = "returned" => radio = [radio0 EXCEPT !.data_mode = on]
                /\ outcome # "returned" => radio = radio0

\* the write of data_mode_off failed and data_mode is still True
C5_Witness ==
    /\ op.name = "data_mode_off"
    /\ outcome = "SerialException"
    /\ writes = <<>>
    /\ radio.data_mode = TRUE

\* C6 (as claimed): tx writes FE FE 88 E0 1C 00 01 FD and rx writes
\* FE FE 88 E0 1C 00 00 FD; once the call has returned with the radio's
\* complete OK answer, transmitting is True after tx and False after rx.
C6_Transmitting ==
    /\ (op.name = "tx" /\ NoException) =>
           writes = << <<254, 254, 136, 224, 28, 0, 1, 253>> >>
    /\ (op.name = "rx" /\ NoException) =>
           writes = << <<254, 254, 136, 224, 28, 0, 0, 253>> >>
    /\ (op.name = "tx" /\ outcome = "returned" /\ response = OkFrame) =>
           radio.transmitting = TRUE
    /\ (op.name = "rx" /\ outcome = "returned" /\ response = OkFrame) =>
           radio.transmitting = FALSE

\* C7 (as claimed): a call whose read loop ended without END_OF_MSG after
\* reading some bytes ends in a Timeout or Truncated failure, with the Radio
\* record as it was when the call began.
C7_NoTerminator ==
    (pc = "IDLE" /\ stop \in {"timeout", "exhausted"} /\ response # <<>>) =>
        /\ outcome \in {"Timeout", "Truncated"}
        /\ radio = radio0

\* C8 (as claimed): a call answered by complete silence returns normally,
\* and a call whose answer was read but has no terminator does not end the
\* same way.
C8_SilenceDistinct ==
    /\ (pc = "IDLE" /\ stop = "timeout" /\ response = <<>>) =>
           outcome = "returned"
    /\ (pc = "IDLE" /\ stop \in {"timeout", "exhausted"} /\ response # <<>>) =>
           outcome # "returned"

\* C9 (as claimed): every byte of the response of the k-th command written
\* was sent by the radio after that command was written and before the next.
C9_OwnBytesOnly ==
    \A i \in 1..Len(response_cmd) : response_cmd[i] = nsent

Decoded == decode_out # NotDecoded

\* FE FE E0 88 <cmd> <bytes other than FD> FD
WellFormedResponse(bs) ==
    /\ Len(bs) >= 6
    /\ SubSeq(bs, 1, 4) = <<254, 254, 224, 136>>
    /\ bs[Len(bs)] = 253
    /\ \A i \in 5..(Len(bs) - 1) : bs[i] # 253

\* C11 (as claimed): called with a well-formed response frame
\* FE FE E0 88 <cmd> ... FD, cmd_from_binary raises nothing and the command
\* number it parsed is the fifth byte.
C11_DecodeAccepts ==
    (Decoded /\ WellFormedResponse(binary_string)) =>
        /\ decode_out.state = "returned"
        /\ decode_out.cmd_num = binary_string[5]

\* C12 (as claimed): cmd_from_binary ends in an error of its own kind for a
\* bad preamble, for bad addresses, and for a string with good preamble and
\* addresses but no terminator; it parses none of these.
C12_DecodeRejects ==
    LET bs == binary_string
        badPreamble == Slice(bs, 2) # <<254, 254>>
        badAddressing == /\ ~badPreamble
                         /\ Len(bs) >= 4
                         /\ SubSeq(bs, 3, 4) # <<224, 136>>
        truncated == /\ ~badPreamble
                     /\ Len(bs) >= 4
                     /\ SubSeq(bs, 3, 4) = <<224, 136>>
                     /\ \A i \in 1..Len(bs) : bs[i] # 253
        kind == <<decode_out.state, decode_out.message>>
    IN  Decoded =>
            /\ badPreamble => kind = <<"ValueError", "preamble">>
            /\ badAddressing => kind = <<"ValueError", "addresses">>
            /\ truncated => /\ decode_out.state # "returned"
                            /\ kind # <<"ValueError", "preamble">>
                            /\ kind # <<"ValueError", "addresses">>

\* C13 (as claimed): cmd_from_binary applied to the rendering of a Command
\* raises nothing and parses the Command's cmd_num.
C13_RoundTrip ==
    \A c \in Commands :
        (Decoded /\ binary_string = render(c)) =>
            /\ decode_out.state = "returned"
            /\ decode_out.cmd_num = c.cmd_num

\* the command number each method sets
CmdNumOf(name) ==
    CASE name \in {"turn_on", "turn_off"} -> 24              \* 0x18
      [] name \in {"goto_mem", "select_bank"} -> 8            \* 0x08
      [] name \in {"rx", "tx"} -> 28                          \* 0x1C
      [] name \in {"data_mode_on", "data_mode_off"} -> 26     \* 0x1A

\* C14: the frame a method has written (for turn_on: what follows the
\* wake-up bytes) starts with FE FE 88 E0 and the method's command number,
\* ends with FD and has no FD before its end.
C14_FramesWellFormed ==
    writes # <<>> =>
        LET w == writes[1]
            skip == IF op.name = "turn_on" THEN WakeUpBytes[BAUD] ELSE 0
            f == SubSeq(w, skip + 1, Len(w))
        IN  /\ Len(writes) = 1
            /\ Len(f) >= 6
            /\ SubSeq(f, 1, 4) = <<254, 254, 136, 224>>
            /\ f[5] = CmdNumOf(op.name)
            /\ f[Len(f)] = 253
            /\ \A i \in 1..(Len(f) - 1) : f[i] # 253

\* goto_mem(99) has written FE FE 88 E0 08 99 FD
C14_Witness ==
    /\ op = [name |-> "goto_mem", arg |-> 99]
    /\ pc = "SENT"
    /\ writes = << <<254, 254, 136, 224, 8, 153, 253>> >>

\* C15 (as claimed): goto_mem(n), n in 1..100, and select_bank(n), n in
\* 1..6, build a Command and a frame of bytes only (so that send_cmd does not
\* raise ValueError on them), and the frame of goto_mem has one data byte.
C15_BytesOnly ==
    /\ (op.name = "goto_mem" /\ op.arg \in 1..100) =>
           /\ outcome # "ValueError"
           /\ writes # <<>> =>
                  /\ \A i \in 1..Len(writes[1]) : writes[1][i] \in 0..255
                  /\ Len(writes[1]) = 7
    /\ (op.name = "select_bank" /\ op.arg \in 1..6) =>
           /\ outcome # "ValueError"
           /\ writes # <<>> =>
                  \A i \in 1..Len(writes[1]) : writes[1][i] \in 0..255

\* the step in which send_cmd's read loop runs and the call returns
ReadStep == pc = "SENT" /\ pc' = "IDLE" /\ outcome' = "returned"

\* C16: the read loop ends; it ends at the first read that times out, at
\* the first FD or after 500 reads, so the response has at most 500 bytes,
\* is a prefix of what the port had to deliver and has FD at most as its
\* last byte.
C16_ReadLoopBounded ==
    /\ [][ReadStep =>
            /\ port_in = response' \o port_in'
            /\ Len(response') <= 500
            /\ \A i \in 1..(Len(response') - 1) : response'[i] # 253
            /\ stop' \in {"timeout", "terminator", "exhausted"}
            /\ stop' = "terminator" <=>
                   (response' # <<>> /\ response'[Len(response')] = 253)
            /\ stop' = "timeout" => (port_in' = <<>> /\ Len(response') < 500)
            /\ stop' = "exhausted" => Len(response') = 500]_vars
    /\ [](/\ Len(response) <= 500
          /\ \A i \in 1..(Len(response) - 1) : response[i] # 253)
    /\ (pc = "SENT") ~> (pc = "IDLE")

\* the loop stopped after 500 reads and left bytes in the buffer
C16_Witness ==
    /\ stop = "exhausted"
    /\ Len(response) = 500
    /\ port_in # <<>>

\* C17: a command is written in one write, in the step from IDLE to SENT and
\* before anything is read; while SENT nothing is written, and the next
\* step of the call leads back to IDLE without another write, whatever was
\* read.
C17_OneWriteNoResend ==
    [][/\ nsent' # nsent =>
             /\ pc = "IDLE" /\ pc' = "SENT"
             /\ nsent' = nsent + 1
             /\ Len(writes') = 1
             /\ response' = <<>> /\ stop' = "none"
       /\ writes' # writes => pc = "IDLE"
       /\ pc = "SENT" =>
             /\ nsent' = nsent /\ writes' = writes /\ op' = op
             /\ pc' \in {"SENT", "IDLE"}
       /\ ReadStep => stop' \in {"timeout", "terminator", "exhausted"}]_vars

\* a command answered by silence: the call has returned, it was written once
C17_Witness ==
    /\ pc = "IDLE"
    /\ outcome = "returned"
    /\ stop = "timeout"
    /\ response = <<>>
    /\ nsent = 1
    /\ Len(writes) = 1

C19_DataModeToggle ==
    /\ [](/\ op.name = "data_mode_off" =>
                /\ radio0.data_mode = TRUE
                /\ NoException =>
                       writes = << <<254, 254, 136, 224, 26, 6, 0, 0, 253>> >>
          /\ op.name = "data_mode_on" =>
                /\ radio0.data_mode = FALSE
                /\ NoException =>
                       writes = << <<254, 254, 136, 224, 26, 6, 1, 2, 253>> >>
          /\ (op.name \in {"data_mode_on", "data_mode_off"}
                /\ outcome = "returned") =>
                radio.data_mode = ~radio0.data_mode
          /\ (nsent = 0 /\ ~Crashed) => radio.data_mode = TRUE)
    /\ [][radio'.data_mode # radio.data_mode =>
            /\ op.name \in {"data_mode_on", "data_mode_off"}
            /\ ReadStep
            /\ radio'.data_mode = (op.name = "data_mode_on")]_vars

\* 'd' twice: off, then on, and data_mode is True again
C19_Witness ==
    /\ nsent = 2
    /\ op.name = "data_mode_on"
    /\ outcome = "returned"
    /\ radio.data_mode = TRUE

\* the frame of tx or of rx is the last one written
TxWritten == op.name = "tx" /\ writes # <<>>
RxWritten == op.name = "rx" /\ writes # <<>>

\* C20: in the operator loop tx writes FE FE 88 E0 1C 00 01 FD and rx
\* FE FE 88 E0 1C 00 00 FD; rx is written only when tx has returned and the
\* operator ends the transmission, the frame written next after a tx frame
\* is the rx frame, and unless a send raises every tx frame is followed by
\* an rx frame.
C20_TransmitThenReceive ==
    /\ [](/\ TxWritten => writes = << <<254, 254, 136, 224, 28, 0, 1, 253>> >>
          /\ RxWritten => writes = << <<254, 254, 136, 224, 28, 0, 0, 253>> >>)
    /\ [][/\ (TxWritten /\ nsent' # nsent) => RxWritten'
          /\ (nsent' # nsent /\ op'.name = "rx") => Waiting]_vars
    /\ TxWritten ~> (RxWritten \/ Crashed)

\* the rx frame has been written after the tx frame, and rx has returned
C20_Witness ==
    /\ RxWritten
    /\ nsent = 2
    /\ outcome = "returned"

====
